---- MODULE Spec2Model ----
(***************************************************************************)
(* A model of refs.c: the reference table, the handle API (make_ref,       *)
(* deref, incref, decref), the recursive traversal apply_to_neighbors and  *)
(* the stop-and-copy collector (move, clean_cycles, collect_garbage).      *)
(*                                                                         *)
(* The pool allocator (mm_init, mm_malloc, mm_free, mem_used,              *)
(* is_pool_address) and the evaluator (its global variables and its writes *)
(* into the payload of a value) are not part of refs.c; they are modelled  *)
(* from their contracts in the specification.                              *)
(***************************************************************************)
EXTENDS Integers, Sequences, FiniteSets, Bags, TLC

(* ------------------------------ bounds -------------------------------- *)

\* init_refs is called with memory_size = MemorySize.
MemorySize == 132

\* init_refs is called with memory_size = DagMemorySize where graphs of three
\* values are built.
DagMemorySize == 176

\* The capacity the evaluator gives a REF_ARRAY where graphs of three values
\* are built.
DagCap == 2

\* Largest capacity of a REF_ARRAY (number of handle slots in its payload).
MaxCap == 1

\* incref is not called on a value whose ref_count already is MaxRefCount,
\* and collect_garbage is not called when it would count more.
MaxRefCount == 2

\* The evaluator has at most MaxGlobals global variables bound to a handle.
MaxGlobals == 2

\* decref is not called when a ref_count would fall below -MaxUnderflow.
MaxUnderflow == 0

(* ----------------------------- constants ------------------------------ *)

ALIGNMENT == 8

\* The null pointer.
NULL == 0

\* The address init_refs is given as memory_pool (8-aligned).
memory_pool == 64

NULL_REF == -1

TOMBSTONE_REF == -2

\* A reference_t read from bytes that make_ref filled with 0xCC.
CC_REF == -858993460

\* A capacity read from bytes that make_ref filled with 0xCC.
CC_CAPACITY == -1

INITIAL_SIZE == 2

\* sizeof(ref_array_value_t): the header and the capacity field.
sizeof_ref_array == 24

\* sizeof(reference_t)
sizeof_reference == 4

Types == {"VAL_INT", "VAL_LIST", "VAL_DICT", "VAL_REF_ARRAY"}

\* The (type, size) pairs the evaluator calls make_ref with: a scalar is the
\* smallest value and a dictionary the largest.
Requests == {<<"VAL_INT", 20>>, <<"VAL_LIST", 28>>, <<"VAL_REF_ARRAY", 32>>,
             <<"VAL_DICT", 40>>}

\* The (type, size) pairs make_ref is called with where graphs of three values
\* are built: scalars and arrays of two handles.
DagRequests == {<<"VAL_INT", 20>>,
                <<"VAL_REF_ARRAY", sizeof_ref_array + DagCap * sizeof_reference>>}

VARIABLES
    pool,           \* start of the from pool
    half_mem_size,  \* half the size of the total memory pool
    to_pool,        \* start of the to pool
    ref_table,      \* 0..num_refs-1 -> address of the value, or NULL
    num_refs,       \* number of references in the table, unused ones included
    max_refs,       \* allocated size of the table
    mem,            \* allocator: start of the region mm_init was last given
    heap,           \* allocator: address of each allocated value -> the value
    globals,        \* evaluator: the bag of the handles its global variables
                    \* are bound to (foreach_global enumerates each of them)
    aborted,        \* the process was ended by a failed assertion or a fault
    last            \* the last call: its name, and in arg the reference
                    \* make_ref returned, the number of values decref freed,
                    \* the number of entries collect_garbage swept, or the
                    \* argument of the call that ended the process

vars == <<pool, half_mem_size, to_pool, ref_table, num_refs, max_refs,
          mem, heap, globals, aborted, last>>

(* --------------------------- the allocator ---------------------------- *)

\* The size init_refs and collect_garbage give to mm_init.
PoolSize == (half_mem_size \div ALIGNMENT) * ALIGNMENT

Min(S) == CHOOSE a \in S : \A b \in S : a <= b

RECURSIVE SumSizes(_, _)
SumSizes(hp, S) ==
    IF S = {} THEN 0
    ELSE LET a == CHOOSE b \in S : TRUE
         IN hp[a].value_size + SumSizes(hp, S \ {a})

\* true iff p lies within the half-space the allocator is active on.
is_pool_address(m, p) == p >= m /\ p < m + PoolSize

\* The allocated values of the half-space starting at m.
InPool(hp, m) == {a \in DOMAIN hp : is_pool_address(m, a)}

mem_used(hp, m) == SumSizes(hp, InPool(hp, m))

\* A faulty variant of mm_malloc: the start of the region is handed out whatever
\* is in use.
mm_malloc_start(hp, m, size) == m

\* First fit: the lowest aligned offset of the region where size bytes are free.
mm_malloc(hp, m, size) ==
    LET aligned == {m + ALIGNMENT * k : k \in 0..((PoolSize - size) \div ALIGNMENT)}
        fits == {a \in aligned : \A b \in DOMAIN hp :
                    b + hp[b].value_size <= a \/ a + size <= b}
    IN IF fits = {} THEN NULL ELSE Min(fits)

mm_free(hp, p) == [a \in (DOMAIN hp) \ {p} |-> hp[a]]

\* mm_init discards what the allocator knew of the region starting at m.
mm_init(hp, m) == [a \in (DOMAIN hp) \ InPool(hp, m) |-> hp[a]]

Store(hp, p, v) == [a \in (DOMAIN hp) \cup {p} |-> IF a = p THEN v ELSE hp[a]]

(* ------------------------ the reference table ------------------------- *)

\* The largest number of handle fields of a value.
MaxSlots == IF MaxCap > 2 THEN MaxCap ELSE 2

\* The number of handle fields in the payload of a value of the type and of
\* value_size size: a REF_ARRAY holds as many as fit behind its capacity field.
Slots(type, size) ==
    CASE type = "VAL_LIST" -> 1
      [] type = "VAL_DICT" -> 2
      [] type = "VAL_REF_ARRAY" -> (size - sizeof_ref_array) \div sizeof_reference
      [] OTHER -> 0

\* deref's assertion.
deref_ok(n, ref) == ref >= 0 /\ ref < n

EmptySlots(tab, n) == {i \in 0..(n - 1) : tab[i] = NULL}

\* deref(ref) on table tab of n references: ok is false when the assertion
\* fails, value is the pointer returned otherwise.
deref(tab, n, ref) ==
    [ok |-> deref_ok(n, ref), value |-> IF deref_ok(n, ref) THEN tab[ref] ELSE NULL]

\* get_ref(value): the first reference whose entry is value; ok is false when
\* there is none and the assertion fails.
get_ref(tab, n, value) ==
    LET found == {i \in 0..(n - 1) : tab[i] = value}
    IN [ok |-> found # {}, ref |-> IF found # {} THEN Min(found) ELSE NULL_REF]

\* A faulty variant of assign_reference: the table is not scanned for an unused slot.
assign_reference_append(tab, n, mx, value) ==
    [tab |-> [i \in 0..n |-> IF i = n THEN value ELSE tab[i]],
     num |-> n + 1,
     max |-> IF n = mx THEN (IF mx = 0 THEN INITIAL_SIZE ELSE mx * 2) ELSE mx,
     ref |-> n]

assign_reference(tab, n, mx, value) ==
    IF EmptySlots(tab, n) # {}
    THEN LET i == Min(EmptySlots(tab, n))
         IN [tab |-> [tab EXCEPT ![i] = value], num |-> n, max |-> mx, ref |-> i]
    ELSE [tab |-> [i \in 0..n |-> IF i = n THEN value ELSE tab[i]],
          num |-> n + 1,
          max |-> IF n = mx THEN (IF mx = 0 THEN INITIAL_SIZE ELSE mx * 2) ELSE mx,
          ref |-> n]

refs_used == Cardinality({i \in 0..(num_refs - 1) : ref_table[i] # NULL})

\* A faulty variant of apply_to_neighbors: f is not applied to dict->values.
apply_to_neighbors_keys_only(val) ==
    CASE val.type = "VAL_LIST" -> <<val.values[1]>>
      [] val.type = "VAL_DICT" -> <<val.values[1]>>
      [] val.type = "VAL_REF_ARRAY" ->
            IF val.capacity = CC_CAPACITY THEN val.values
            ELSE SubSeq(val.values, 1, val.capacity)
      [] OTHER -> <<>>

\* The child handles apply_to_neighbors hands to f, in order.
apply_to_neighbors(val) ==
    CASE val.type = "VAL_LIST" -> <<val.values[1]>>
      [] val.type = "VAL_DICT" -> <<val.values[1], val.values[2]>>
      [] val.type = "VAL_REF_ARRAY" ->
            IF val.capacity = CC_CAPACITY THEN val.values
            ELSE SubSeq(val.values, 1, val.capacity)
      [] OTHER -> <<>>

\* The number of handle fields of value v that hold a child: one for a LIST,
\* two for a DICT, capacity for a REF_ARRAY.
NumFields(v) == IF v.type = "VAL_REF_ARRAY" THEN v.capacity ELSE Len(v.values)

Fail(st) == [st EXCEPT !.ok = FALSE]

(* ------------------------- reference counting ------------------------- *)

\* What decref does is kept in st.log, in order: "decref" for a call, "zero"
\* when the count has reached 0, "mm_free" and "empty" for the two statements
\* that follow the traversal. Each event holds the depth of the recursion, the
\* references in use and those among them whose count is 0 when it happens.
Event(st, op, ref) ==
    [op |-> op, ref |-> ref, depth |-> st.depth,
     live |-> {i \in 0..(st.num - 1) : st.tab[i] # NULL},
     zero |-> {i \in 0..(st.num - 1) :
                  /\ st.tab[i] \in DOMAIN st.heap
                  /\ st.heap[st.tab[i]].ref_count = 0}]

Logged(st, op, ref) == [st EXCEPT !.log = Append(@, Event(st, op, ref))]

\* st.freed lists the pointers given to mm_free, in order.
RECURSIVE decref_rec(_, _), decref_all(_, _)
\* A faulty variant of decref: the value is freed and its entry emptied before
\* decref is applied to its children.
decref_rec_free_first(st, ref) ==
    IF ~st.ok THEN st
    ELSE LET s0 == Logged(st, "decref", ref)
         IN IF ref = TOMBSTONE_REF \/ ref = NULL_REF THEN s0
            ELSE IF ~deref_ok(s0.num, ref) THEN Fail(s0)
            ELSE LET val == s0.tab[ref]
                 IN IF val = NULL THEN Fail(s0)
                    ELSE LET rc  == s0.heap[val].ref_count - 1
                             st1 == [s0 EXCEPT !.heap[val].ref_count = rc]
                             st2 == Logged(Logged(st1, "zero", ref), "mm_free", ref)
                             st3 == Logged([st2 EXCEPT !.heap = mm_free(@, val),
                                                       !.freed = Append(@, val)],
                                           "empty", ref)
                         IN IF rc # 0 THEN st1
                            ELSE [decref_all([st3 EXCEPT !.tab[ref] = NULL,
                                                         !.depth = @ + 1],
                                             apply_to_neighbors(st1.heap[val]))
                                    EXCEPT !.depth = @ - 1]

\* A faulty variant of decref: NULL_REF and TOMBSTONE_REF are not told from
\* references and go to deref.
decref_rec_unguarded(st, ref) ==
    IF ~st.ok THEN st
    ELSE LET s0 == Logged(st, "decref", ref)
         IN IF ~deref_ok(s0.num, ref) THEN Fail(s0)
            ELSE LET val == s0.tab[ref]
                 IN IF val = NULL THEN Fail(s0)
                    ELSE LET rc  == s0.heap[val].ref_count - 1
                             st1 == [s0 EXCEPT !.heap[val].ref_count = rc]
                         IN IF rc # 0 THEN st1
                            ELSE LET st2 == decref_all(
                                               [Logged(st1, "zero", ref) EXCEPT !.depth = @ + 1],
                                               apply_to_neighbors(st1.heap[val]))
                                     st3 == Logged([st2 EXCEPT !.depth = @ - 1],
                                                   "mm_free", ref)
                                     st4 == Logged([st3 EXCEPT !.heap = mm_free(@, val),
                                                               !.freed = Append(@, val)],
                                                   "empty", ref)
                                 IN IF ~st2.ok THEN st2
                                    ELSE [st4 EXCEPT !.tab[ref] = NULL]

\* A faulty variant of decref: the value is freed when one reference is left
\* (ref_count == 1 in place of ref_count == 0).
decref_rec_early(st, ref) ==
    IF ~st.ok \/ ref = TOMBSTONE_REF \/ ref = NULL_REF THEN st
    ELSE IF ~deref_ok(st.num, ref) THEN Fail(st)
    ELSE LET val == st.tab[ref]
         IN IF val = NULL THEN Fail(st)
            ELSE LET rc  == st.heap[val].ref_count - 1
                     st1 == [st EXCEPT !.heap[val].ref_count = rc]
                 IN IF rc # 1 THEN st1
                    ELSE LET st2 == decref_all(st1, apply_to_neighbors(st1.heap[val]))
                         IN IF ~st2.ok THEN st2
                            ELSE [st2 EXCEPT !.heap = mm_free(st2.heap, val),
                                             !.freed = Append(@, val),
                                             !.tab[ref] = NULL]

decref_rec(st, ref) ==
    IF ~st.ok THEN st
    ELSE LET s0 == Logged(st, "decref", ref)
         IN IF ref = TOMBSTONE_REF \/ ref = NULL_REF THEN s0
            ELSE IF ~deref_ok(s0.num, ref) THEN Fail(s0)
            ELSE LET val == s0.tab[ref]
                 IN IF val = NULL THEN Fail(s0)
                    ELSE LET rc  == s0.heap[val].ref_count - 1
                             st1 == [s0 EXCEPT !.heap[val].ref_count = rc]
                         IN IF rc # 0 THEN st1
                            ELSE LET st2 == decref_all(
                                               [Logged(st1, "zero", ref) EXCEPT !.depth = @ + 1],
                                               apply_to_neighbors(st1.heap[val]))
                                     st3 == Logged([st2 EXCEPT !.depth = @ - 1],
                                                   "mm_free", ref)
                                     st4 == Logged([st3 EXCEPT !.heap = mm_free(@, val),
                                                               !.freed = Append(@, val)],
                                                   "empty", ref)
                                 IN IF ~st2.ok THEN st2
                                    ELSE [st4 EXCEPT !.tab[ref] = NULL]

decref_all(st, refs) ==
    IF refs = <<>> THEN st
    ELSE decref_all(decref_rec(st, Head(refs)), Tail(refs))

(* ------------------------- garbage collector -------------------------- *)

\* A faulty variant of reset_count: the count of the from space is kept.
reset_count_kept(v) == v

\* val->ref_count = 1
reset_count(v) == [v EXCEPT !.ref_count = 1]

\* A faulty variant of memcpy: only the header (sizeof(value_t) bytes) is copied, the
\* payload at the new address stays what make_ref's pattern would read as.
memcpy_header(v) ==
    [v EXCEPT !.capacity = IF v.type = "VAL_REF_ARRAY" THEN CC_CAPACITY ELSE @,
              !.values = [i \in 1..Len(v.values) |-> CC_REF]]

\* The value memcpy writes at the new address: all value_size bytes of v.
memcpy(v) == v

\* st.mem is the to space, on which the allocator is active during the
\* collection; st.heap holds the values of both half-spaces.
RECURSIVE move(_, _), move_all(_, _)
\* A faulty variant of move: ALIGNMENT bytes more than value_size are requested
\* for the copy.
move_padded(st, ref) ==
    IF ~st.ok \/ ref = NULL_REF \/ ref = TOMBSTONE_REF THEN st
    ELSE IF ~deref_ok(st.num, ref) THEN Fail(st)
    ELSE LET val == st.tab[ref]
         IN IF ~is_pool_address(st.mem, val)
            THEN IF val = NULL THEN Fail(st)
                 ELSE LET v   == reset_count(st.heap[val])
                          ptr == mm_malloc(st.heap, st.mem, v.value_size + ALIGNMENT)
                      IN IF ptr = NULL THEN Fail(st)
                         ELSE move_all([st EXCEPT
                                          !.heap = Store(Store(st.heap, val, v), ptr,
                                                         [memcpy(v) EXCEPT
                                                            !.value_size = @ + ALIGNMENT]),
                                          !.tab[ref] = ptr],
                                       apply_to_neighbors(v))
            ELSE [st EXCEPT !.heap[val].ref_count = @ + 1]

\* A faulty variant of move: a value that has been moved is not counted again.
move_no_recount(st, ref) ==
    IF ~st.ok \/ ref = NULL_REF \/ ref = TOMBSTONE_REF THEN st
    ELSE IF ~deref_ok(st.num, ref) THEN Fail(st)
    ELSE LET val == st.tab[ref]
         IN IF ~is_pool_address(st.mem, val)
            THEN IF val = NULL THEN Fail(st)
                 ELSE LET v   == reset_count(st.heap[val])
                          ptr == mm_malloc(st.heap, st.mem, v.value_size)
                      IN IF ptr = NULL THEN Fail(st)
                         ELSE move_all([st EXCEPT
                                          !.heap = Store(Store(st.heap, val, v),
                                                         ptr, memcpy(v)),
                                          !.tab[ref] = ptr],
                                       apply_to_neighbors(v))
            ELSE st

move(st, ref) ==
    IF ~st.ok \/ ref = NULL_REF \/ ref = TOMBSTONE_REF THEN st
    ELSE IF ~deref_ok(st.num, ref) THEN Fail(st)
    ELSE LET val == st.tab[ref]
         IN IF ~is_pool_address(st.mem, val)
            THEN IF val = NULL THEN Fail(st)
                 ELSE LET v   == reset_count(st.heap[val])
                          ptr == mm_malloc(st.heap, st.mem, v.value_size)
                      IN IF ptr = NULL THEN Fail(st)
                         ELSE move_all([st EXCEPT
                                          !.heap = Store(Store(st.heap, val, v),
                                                         ptr, memcpy(v)),
                                          !.tab[ref] = ptr],
                                       apply_to_neighbors(v))
            ELSE [st EXCEPT !.heap[val].ref_count = @ + 1]

move_all(st, refs) ==
    IF refs = <<>> THEN st
    ELSE move_all(move(st, Head(refs)), Tail(refs))

\* foreach_global(stop_and_copy), the globals visited in the order given.
stop_and_copy(st, order) == move_all(st, order)

\* A faulty variant of clean_cycles: the sweep empties nothing.
clean_cycles_none(tab, n, m) == tab

clean_cycles(tab, n, m) ==
    [i \in 0..(n - 1) |-> IF is_pool_address(m, tab[i]) THEN tab[i] ELSE NULL]

\* The orders in which foreach_global may enumerate the globals: every
\* sequence that holds each handle as often as globals does.
Orders ==
    {o \in [1..BagCardinality(globals) -> BagToSet(globals)] :
        \A r \in BagToSet(globals) :
            Cardinality({k \in 1..BagCardinality(globals) : o[k] = r}) =
                CopiesIn(r, globals)}

(* ------------------------------ actions ------------------------------- *)

\* No call follows a failed assertion, a fault or close_refs.
Running == ~aborted /\ last.op # "close_refs"

\* The capacity or a handle field in use still holds make_ref's pattern.
Fresh(v) == v.capacity = CC_CAPACITY \/ \E i \in 1..NumFields(v) : v.values[i] = CC_REF

\* The evaluator fills in a value right after make_ref returned it.
NoFresh == \A a \in DOMAIN heap : ~(heap[a].type # "VAL_INT" /\ Fresh(heap[a]))

Live == {i \in 0..(num_refs - 1) : ref_table[i] # NULL}

Init ==
    /\ half_mem_size = MemorySize \div 2
    /\ to_pool = memory_pool + half_mem_size
    /\ pool = memory_pool
    /\ mem = memory_pool
    /\ heap = <<>>
    /\ ref_table = <<>>
    /\ num_refs = 0
    /\ max_refs = 0
    /\ globals = EmptyBag
    /\ aborted = FALSE
    /\ last = [op |-> "init_refs", arg |-> NULL_REF]

\* A failed assertion or a fault ends the process: its table and its heap
\* are gone, and no call follows.
Abort(op, arg) ==
    /\ aborted' = TRUE
    /\ last' = [op |-> op, arg |-> arg]
    /\ ref_table' = <<>>
    /\ num_refs' = 0
    /\ max_refs' = 0
    /\ heap' = <<>>
    /\ globals' = EmptyBag
    /\ UNCHANGED <<pool, half_mem_size, to_pool, mem>>

\* size = (size + ALIGNMENT - 1) / ALIGNMENT * ALIGNMENT
round_up(sz) == ((sz + ALIGNMENT - 1) \div ALIGNMENT) * ALIGNMENT

\* A faulty variant of new_value: the count of the first reference is not set.
new_value_uncounted(type, size) ==
    [type |-> type, value_size |-> size, ref_count |-> 0,
     capacity |-> IF type = "VAL_REF_ARRAY" THEN CC_CAPACITY ELSE 0,
     values |-> [i \in 1..Slots(type, size) |-> CC_REF]]

\* The value make_ref initializes: type, ref_count = 1, payload filled with 0xCC.
new_value(type, size) ==
    [type |-> type, value_size |-> size, ref_count |-> 1,
     capacity |-> IF type = "VAL_REF_ARRAY" THEN CC_CAPACITY ELSE 0,
     values |-> [i \in 1..Slots(type, size) |-> CC_REF]]

\* A faulty variant of make_ref: the reference is assigned before the result of
\* mm_malloc is looked at.
make_ref_unchecked(type, sz) ==
    LET value == mm_malloc(heap, mem, round_up(sz))
        r     == assign_reference(ref_table, num_refs, max_refs, value)
    IN [heap |-> IF value = NULL THEN heap
                 ELSE Store(heap, value, new_value(type, round_up(sz))),
        tab |-> r.tab, num |-> r.num, max |-> r.max,
        ref |-> IF value = NULL THEN NULL_REF ELSE r.ref]

\* make_ref on the current state: the heap and the table it leaves, and the
\* reference it returns.
make_ref(type, sz) ==
    LET size  == round_up(sz)
        value == mm_malloc(heap, mem, size)
    IN IF value = NULL
       THEN [heap |-> heap, tab |-> ref_table, num |-> num_refs, max |-> max_refs,
             ref |-> NULL_REF]
       ELSE LET r == assign_reference(ref_table, num_refs, max_refs, value)
            IN [heap |-> Store(heap, value, new_value(type, size)),
                tab |-> r.tab, num |-> r.num, max |-> r.max, ref |-> r.ref]

MakeRef(type, sz) ==
    /\ Running /\ NoFresh
    /\ LET r == make_ref(type, sz)
       IN /\ heap' = r.heap
          /\ ref_table' = r.tab
          /\ num_refs' = r.num
          /\ max_refs' = r.max
          /\ last' = [op |-> "make_ref", arg |-> r.ref]
    /\ UNCHANGED <<pool, half_mem_size, to_pool, mem, globals, aborted>>

\* The evaluator's constructors: the capacity of a new REF_ARRAY is set and
\* every handle field of a new composite value is set to NULL_REF.
InitFields(h, cap) ==
    /\ Running
    /\ h \in Live
    /\ LET val == ref_table[h]
       IN /\ heap[val].type # "VAL_INT"
          /\ Fresh(heap[val])
          /\ heap[val].type # "VAL_REF_ARRAY" => cap = 0
          /\ cap <= Len(heap[val].values)
          /\ heap' = [heap EXCEPT
                ![val].capacity = cap,
                ![val].values = [i \in 1..Len(heap[val].values) |->
                                    IF heap[val].type = "VAL_REF_ARRAY" /\ i > cap
                                    THEN CC_REF ELSE NULL_REF]]
    /\ last' = [op |-> "write", arg |-> NULL_REF]
    /\ UNCHANGED <<pool, half_mem_size, to_pool, ref_table, num_refs, max_refs,
                   mem, globals, aborted>>

\* The evaluator stores handle r in child field i of the value of handle h.
SetChild(h, i, r) ==
    /\ Running /\ NoFresh
    /\ h \in Live
    /\ r \in Live \cup {NULL_REF, TOMBSTONE_REF}
    /\ LET val == ref_table[h]
       IN /\ i \in 1..NumFields(heap[val])
          /\ heap[val].values[i] # r
          /\ heap' = [heap EXCEPT ![val].values[i] = r]
    /\ last' = [op |-> "write", arg |-> NULL_REF]
    /\ UNCHANGED <<pool, half_mem_size, to_pool, ref_table, num_refs, max_refs,
                   mem, globals, aborted>>

\* The evaluator binds one more global variable to handle r.
BindGlobal(r) ==
    /\ Running /\ NoFresh
    /\ r \in Live
    /\ BagCardinality(globals) < MaxGlobals
    /\ globals' = globals (+) SetToBag({r})
    /\ last' = [op |-> "write", arg |-> NULL_REF]
    /\ UNCHANGED <<pool, half_mem_size, to_pool, ref_table, num_refs, max_refs,
                   mem, heap, aborted>>

\* The evaluator unsets a global variable that was bound to handle r.
UnbindGlobal(r) ==
    /\ Running /\ NoFresh
    /\ BagIn(r, globals)
    /\ globals' = globals (-) SetToBag({r})
    /\ last' = [op |-> "write", arg |-> NULL_REF]
    /\ UNCHANGED <<pool, half_mem_size, to_pool, ref_table, num_refs, max_refs,
                   mem, heap, aborted>>

\* decref run to its end on the current state.
decref(ref) ==
    decref_rec([tab |-> ref_table, num |-> num_refs, heap |-> heap,
                freed |-> <<>>, log |-> <<>>, depth |-> 0, ok |-> TRUE], ref)

\* The handles the evaluator calls incref and decref with.
Handles == (0..(num_refs - 1)) \cup {NULL_REF, TOMBSTONE_REF}

Incref(ref) ==
    /\ Running /\ NoFresh
    /\ IF ~deref_ok(num_refs, ref) \/ ref_table[ref] = NULL
       THEN Abort("incref", ref)
       ELSE /\ heap[ref_table[ref]].ref_count < MaxRefCount
            /\ heap' = [heap EXCEPT ![ref_table[ref]].ref_count = @ + 1]
            /\ last' = [op |-> "incref", arg |-> NULL_REF]
            /\ UNCHANGED <<pool, half_mem_size, to_pool, ref_table, num_refs,
                           max_refs, mem, globals, aborted>>

Decref(ref) ==
    /\ Running /\ NoFresh
    /\ LET st == decref(ref)
       IN IF st.ok
          THEN /\ \A a \in DOMAIN st.heap : st.heap[a].ref_count >= -MaxUnderflow
               /\ ref_table' = st.tab
               /\ heap' = st.heap
               /\ last' = [op |-> "decref", arg |-> Len(st.freed)]
               /\ UNCHANGED <<pool, half_mem_size, to_pool, num_refs, max_refs,
                              mem, globals, aborted>>
          ELSE Abort("decref", ref)

\* deref changes nothing; the process ends when its assertion fails.
Deref(ref) ==
    /\ Running
    /\ IF deref(ref_table, num_refs, ref).ok
       THEN UNCHANGED vars
       ELSE Abort("deref", ref)

\* get_ref of a pointer the evaluator has just got from deref.
GetRef(value) ==
    /\ Running
    /\ IF get_ref(ref_table, num_refs, value).ok
       THEN UNCHANGED vars
       ELSE Abort("get_ref", NULL_REF)

\* A faulty variant of close_refs: the active half-space is released.
close_refs_active == pool

\* The address close_refs gives to mm_free: the lower of pool and to_pool.
close_refs == IF pool < to_pool THEN pool ELSE to_pool

\* close_refs releases the memory pool and the table; no call follows.
CloseRefs ==
    /\ Running
    /\ last' = [op |-> "close_refs", arg |-> close_refs]
    /\ ref_table' = <<>>
    /\ num_refs' = 0
    /\ max_refs' = 0
    /\ heap' = <<>>
    /\ globals' = EmptyBag
    /\ UNCHANGED <<pool, half_mem_size, to_pool, mem, aborted>>

\* After the swap the from space is scratch: the allocator, active on the
\* new half-space, knows nothing of it.
CollectGarbage(order) ==
    /\ Running /\ NoFresh
    /\ LET st == stop_and_copy([tab |-> ref_table, num |-> num_refs,
                                heap |-> mm_init(heap, to_pool),
                                mem |-> to_pool, ok |-> TRUE], order)
       IN IF st.ok
          THEN /\ \A a \in InPool(st.heap, st.mem) :
                      st.heap[a].ref_count <= MaxRefCount
               /\ ref_table' = clean_cycles(st.tab, num_refs, st.mem)
               /\ heap' = [a \in InPool(st.heap, st.mem) |-> st.heap[a]]
               /\ mem' = st.mem
               /\ pool' = to_pool
               /\ to_pool' = pool
               /\ last' = [op |-> "collect_garbage",
                           arg |-> Cardinality({i \in Live : ~is_pool_address(st.mem, st.tab[i])})]
               /\ UNCHANGED <<half_mem_size, num_refs, max_refs, globals, aborted>>
          ELSE Abort("collect_garbage", NULL_REF)

Next ==
    \/ \E rq \in Requests : MakeRef(rq[1], rq[2])
    \/ \E h \in Handles, cap \in 0..MaxCap : InitFields(h, cap)
    \/ \E h \in Handles, i \in 1..MaxSlots, r \in Handles : SetChild(h, i, r)
    \/ \E r \in Handles : BindGlobal(r)
    \/ \E r \in Handles : UnbindGlobal(r)
    \/ \E r \in Handles : Incref(r)
    \/ \E r \in Handles : Decref(r)
    \/ \E o \in Orders : CollectGarbage(o)
    \/ \E r \in Handles : Deref(r)
    \/ \E h \in Live : GetRef(deref(ref_table, num_refs, h).value)
    \/ CloseRefs

Spec == Init /\ [][Next]_vars

(* ------------- graphs of three values, built and collected ------------ *)

\* init_refs(DagMemorySize, memory_pool)
InitDag ==
    /\ half_mem_size = DagMemorySize \div 2
    /\ to_pool = memory_pool + half_mem_size
    /\ pool = memory_pool
    /\ mem = memory_pool
    /\ heap = <<>>
    /\ ref_table = <<>>
    /\ num_refs = 0
    /\ max_refs = 0
    /\ globals = EmptyBag
    /\ aborted = FALSE
    /\ last = [op |-> "init_refs", arg |-> NULL_REF]

\* No collection has been made yet.
FirstPass == pool = memory_pool

\* The evaluator builds values in the lower half-space, links them, binds
\* globals, and collects once.
NextDag ==
    \/ \E rq \in DagRequests : FirstPass /\ MakeRef(rq[1], rq[2])
    \/ \E h \in Handles : FirstPass /\ InitFields(h, DagCap)
    \/ \E h \in Handles, i \in 1..DagCap, r \in Live : FirstPass /\ SetChild(h, i, r)
    \/ \E r \in Handles : FirstPass /\ BindGlobal(r)
    \/ \E o \in Orders : FirstPass /\ CollectGarbage(o)

SpecDag == InitDag /\ [][NextDag]_vars

(* ------------------------- auxiliary notions -------------------------- *)

Value(h) == heap[ref_table[h]]

\* The handles stored in the child fields of the value of handle h.
Children(h) == [i \in 1..NumFields(Value(h)) |-> Value(h).values[i]]

Occurrences(seq, h) == Cardinality({i \in 1..Len(seq) : seq[i] = h})

\* The number of child fields of the values of the handles in S that hold h.
RECURSIVE EdgeCount(_, _)
EdgeCount(S, h) ==
    IF S = {} THEN 0
    ELSE LET g == CHOOSE x \in S : TRUE
         IN Occurrences(Children(g), h) + EdgeCount(S \ {g}, h)

\* The number of times foreach_global enumerates h.
RootCount(h) == CopiesIn(h, globals)

RECURSIVE Closure(_)
Closure(S) ==
    LET T == S \cup {c \in 0..(num_refs - 1) :
                        \E g \in S \cap Live : Occurrences(Children(g), c) > 0}
    IN IF T = S THEN S ELSE Closure(T)

\* The handles reachable from the root set.
Reachable == Closure(BagToSet(globals))

\* A step that is a completed call of collect_garbage.
CollectStep == ~aborted' /\ last'.op = "collect_garbage"

AfterCollect == ~aborted /\ last.op = "collect_garbage"

(* ------------------------------ claims -------------------------------- *)

\* C1: after any sequence of completed calls every non-empty entry of the
\* reference table points to a value inside the active half-space (the one the
\* allocator is on, which starts at pool), and none into the inactive one.
C1_EntriesInActiveHalf ==
    ~aborted =>
        /\ mem = pool
        /\ \A i \in 0..(num_refs - 1) :
              ref_table[i] # NULL =>
                 /\ is_pool_address(mem, ref_table[i])
                 /\ ref_table[i] \in DOMAIN heap
                 /\ ~is_pool_address(to_pool, ref_table[i])

\* C1 witness: a collection has moved a value into the upper half-space.
C1_Witness ==
    /\ AfterCollect
    /\ pool # memory_pool
    /\ Live # {}

\* C2: when collect_garbage has completed, the ref_count of every surviving
\* value is the number of times its handle is a root plus the number of child
\* fields of surviving values that hold its handle.
C2_CountsRebuilt ==
    AfterCollect =>
        \A h \in Live :
            Value(h).ref_count = RootCount(h) + EdgeCount(Live, h)

\* C2 witness: a survivor that is no root and is counted for one child field.
C2_Witness ==
    /\ AfterCollect
    /\ \E h \in Live :
          /\ RootCount(h) = 0
          /\ EdgeCount(Live, h) = 1
          /\ Value(h).ref_count = 1

\* C3: every handle reachable from the roots before collect_garbage still has a
\* non-empty entry after it, and its value has the same type, value_size and
\* payload (capacity and child handles).
C3_HandlesPreserved ==
    [][CollectStep =>
          \A h \in Reachable :
              /\ ref_table'[h] # NULL
              /\ heap'[ref_table'[h]].type = Value(h).type
              /\ heap'[ref_table'[h]].value_size = Value(h).value_size
              /\ heap'[ref_table'[h]].capacity = Value(h).capacity
              /\ heap'[ref_table'[h]].values = Value(h).values]_vars

\* C3 witness: a value with a child handle has survived a collection.
C3_Witness ==
    /\ AfterCollect
    /\ \E h \in Live : \E i \in 1..Len(Children(h)) : Children(h)[i] \in Live

\* C4: after collect_garbage the entry of every value that was not reachable
\* from the roots is empty, and mem_used() is the sum of value_size over the
\* values that were reachable.
C4_UnreachableSwept ==
    [][CollectStep =>
          /\ \A h \in 0..(num_refs - 1) : h \notin Reachable => ref_table'[h] = NULL
          /\ mem_used(heap', mem') =
                SumSizes(heap, {ref_table[h] : h \in Reachable})]_vars

\* C4 witness: a collection has swept two entries (values whose counts were
\* positive) and nothing is left in use.
C4_Witness ==
    /\ AfterCollect
    /\ last.arg = 2
    /\ Live = {}
    /\ mem_used(heap, mem) = 0

\* The scenario of C5: REF_ARRAYs a and b of capacity 1, a[0] = b, b[0] = a,
\* a the only global root, enumerated once.
CycleWithRoot(a, b) ==
    /\ a # b /\ a \in Live /\ b \in Live
    /\ Value(a).type = "VAL_REF_ARRAY" /\ Value(a).capacity = 1
    /\ Value(b).type = "VAL_REF_ARRAY" /\ Value(b).capacity = 1
    /\ Value(a).values[1] = b
    /\ Value(b).values[1] = a
    /\ globals = SetToBag({a})

CycleSurvives(a, b, ca, cb) ==
    /\ ref_table'[a] # NULL /\ ref_table'[b] # NULL
    /\ is_pool_address(mem', ref_table'[a]) /\ is_pool_address(mem', ref_table'[b])
    /\ mem' = to_pool /\ pool' = to_pool
    /\ heap'[ref_table'[a]].ref_count = ca
    /\ heap'[ref_table'[b]].ref_count = cb

\* C5 as stated: in the scenario both values survive collect_garbage in the
\* newly active half-space with a.ref_count = 1 and b.ref_count = 1.
C5_CycleWithRoot_Original ==
    [][CollectStep =>
          \A a, b \in 0..(num_refs - 1) :
              CycleWithRoot(a, b) => CycleSurvives(a, b, 1, 1)]_vars

\* C5 amended: in the scenario both values survive collect_garbage in the
\* newly active half-space with a.ref_count = 2 (the root and b[0]) and
\* b.ref_count = 1 (a[0]).
C5_CycleWithRoot ==
    [][CollectStep =>
          \A a, b \in 0..(num_refs - 1) :
              CycleWithRoot(a, b) => CycleSurvives(a, b, 2, 1)]_vars

\* C5 witness: the scenario right after a collection.
C5_Witness ==
    /\ AfterCollect
    /\ \E a, b \in Live :
          CycleWithRoot(a, b) /\ Value(a).ref_count = 2 /\ Value(b).ref_count = 1

\* The handles of the structure under handle h: h and what is reachable from it.
Structure(h) == Closure({h})

\* No value of the structure is reachable from its own child handles.
Acyclic(D) ==
    \A d \in D : d \notin Closure({c \in D : Occurrences(Children(d), c) > 0})

\* Handle h is the last handle to an acyclic structure whose counts are
\* accurate: h is counted once, and every other value of the structure is
\* counted once for each child field of the structure that holds its handle.
LastHandle(h) ==
    /\ h \in Live
    /\ Structure(h) \subseteq Live
    /\ Acyclic(Structure(h))
    /\ Value(h).ref_count = 1
    /\ \A d \in Structure(h) \ {h} : Value(d).ref_count = EdgeCount(Structure(h), d)

\* C6: when decref drops the last handle to an acyclic structure of N values
\* with accurate counts, exactly the N entries of the structure become empty,
\* each of its values is given to mm_free exactly once (so the bytes in use
\* fall by the sum of their value_size), and every other entry and value is
\* unchanged.
C6_AcyclicFreed ==
    [][\A h \in 0..(num_refs - 1) :
          (last'.op = "decref" /\ LastHandle(h) /\ Decref(h)) =>
             LET D == Structure(h)
                 freed == decref(h).freed
             IN /\ ~aborted'
                /\ \A d \in D : ref_table'[d] = NULL
                /\ Len(freed) = Cardinality(D)
                /\ {freed[k] : k \in 1..Len(freed)} = {ref_table[d] : d \in D}
                /\ mem_used(heap', mem') =
                      mem_used(heap, mem) - SumSizes(heap, {ref_table[d] : d \in D})
                /\ \A i \in (0..(num_refs - 1)) \ D :
                      /\ ref_table'[i] = ref_table[i]
                      /\ ref_table[i] # NULL => heap'[ref_table[i]] = heap[ref_table[i]]]_vars

\* C6 witness: one decref has freed a structure of two values.
C6_Witness ==
    /\ ~aborted
    /\ last.op = "decref"
    /\ last.arg = 2
    /\ Live = {}

\* C7 as stated: incref of NULL_REF or TOMBSTONE_REF returns normally (no
\* assertion fails) and changes no entry and no count.
C7_IncrefSentinelNoOp ==
    [][\A r \in {NULL_REF, TOMBSTONE_REF} :
          Incref(r) => ~aborted' /\ UNCHANGED <<ref_table, num_refs, heap>>]_vars

\* C8: a successful make_ref returns the lowest-indexed empty slot of the table
\* if there is one and num_refs otherwise; the handle is never greater than
\* refs_used() before the call.
C8_LowestEmptySlot ==
    [][(~aborted' /\ last'.op = "make_ref" /\ last'.arg # NULL_REF) =>
          LET E == {i \in 0..(num_refs - 1) : ref_table[i] = NULL}
              r == last'.arg
          IN /\ E # {} => (r \in E /\ \A j \in E : r <= j)
             /\ E = {} => r = num_refs
             /\ r <= refs_used]_vars

\* C8 witness: make_ref has reused slot 0 of a table of two entries.
C8_Witness ==
    /\ ~aborted
    /\ last.op = "make_ref"
    /\ last.arg = 0
    /\ num_refs = 2

\* C9: when no aligned run of free bytes of the half-space holds the rounded-up
\* size, make_ref returns NULL_REF, and a make_ref that returns NULL_REF leaves
\* the table, num_refs, max_refs, refs_used() and every value as they were.
C9_FailureChangesNothing ==
    [][\A rq \in Requests :
          (last'.op = "make_ref" /\ MakeRef(rq[1], rq[2])) =>
             /\ (\A k \in 0..(PoolSize \div ALIGNMENT) :
                    \/ ALIGNMENT * k + round_up(rq[2]) > PoolSize
                    \/ \E b \in DOMAIN heap :
                          /\ b < mem + ALIGNMENT * k + round_up(rq[2])
                          /\ mem + ALIGNMENT * k < b + heap[b].value_size)
                => last'.arg = NULL_REF
             /\ last'.arg = NULL_REF =>
                   /\ UNCHANGED <<ref_table, num_refs, max_refs, heap>>
                   /\ refs_used' = refs_used]_vars

\* C9 witness: make_ref has returned NULL_REF while a value is in use.
C9_Witness ==
    /\ ~aborted
    /\ last.op = "make_ref"
    /\ last.arg = NULL_REF
    /\ Live # {}

\* C10: a successful make_ref(type, size) returns a handle whose entry was
\* empty or beyond num_refs, and that now designates a value of that type with
\* ref_count = 1; refs_used() grows by one, and every other entry and every
\* other value's ref_count is unchanged.
C10_MakeRefFrame ==
    [][\A rq \in Requests :
          (last'.op = "make_ref" /\ last'.arg # NULL_REF /\ MakeRef(rq[1], rq[2])) =>
             LET r == last'.arg
             IN /\ r >= num_refs \/ ref_table[r] = NULL
                /\ r \in 0..(num_refs' - 1)
                /\ ref_table'[r] # NULL
                /\ heap'[ref_table'[r]].type = rq[1]
                /\ heap'[ref_table'[r]].ref_count = 1
                /\ refs_used' = refs_used + 1
                /\ \A i \in (0..(num_refs - 1)) \ {r} :
                      /\ ref_table'[i] = ref_table[i]
                      /\ ref_table[i] # NULL =>
                            heap'[ref_table[i]].ref_count = heap[ref_table[i]].ref_count]_vars

\* C10 witness: make_ref has returned a second value beside one whose count
\* is 2.
C10_Witness ==
    /\ ~aborted
    /\ last.op = "make_ref"
    /\ last.arg \in Live
    /\ Value(last.arg).ref_count = 1
    /\ \E h \in Live \ {last.arg} : Value(h).ref_count = 2

\* Every child field of a value in use that holds the handle of a value in use
\* is counted in that value's ref_count.
Accurate == \A h \in Live : Value(h).ref_count >= EdgeCount(Live, h)

\* The number of handles to the value of h that the evaluator holds outside
\* the heap: what ref_count counts beyond the child fields.
External(h) == Value(h).ref_count - EdgeCount(Live, h)

\* The handles reachable from the child fields of the value of handle h.
Descendants(h) == Closure({c \in 0..(num_refs - 1) : Occurrences(Children(h), c) > 0})

\* C is a cycle: every member is reachable from the child fields of every
\* member (of itself too).
IsCycle(C) == C # {} /\ C \subseteq Live /\ \A m \in C : C \subseteq Descendants(m)

CycleKept ==
    \A C \in SUBSET Live :
        IsCycle(C) =>
            \A m \in C : /\ ref_table'[m] = ref_table[m]
                         /\ ref_table[m] \in DOMAIN heap'
                         /\ heap'[ref_table[m]].ref_count >= 1

\* C11: while counts are accurate, no make_ref, no incref and no decref of a
\* handle the evaluator holds empties the entry of a member of a cycle or
\* brings its ref_count below 1, also when no handle to the cycle is held any
\* more (refs_used() stays 2 for a[0] = b, b[0] = a); collect_garbage with no
\* roots leaves refs_used() = 0.
C11_CycleTrapped ==
    [][/\ (last'.op \in {"make_ref", "incref"} /\ ~aborted' /\ Accurate) => CycleKept
       /\ \A r \in Live \cup {NULL_REF, TOMBSTONE_REF} :
             (/\ last'.op = "decref" /\ ~aborted'
              /\ Accurate
              /\ r \in Live => External(r) >= 1
              /\ Decref(r)) => CycleKept
       /\ (CollectStep /\ globals = EmptyBag) => refs_used' = 0]_vars

\* C11 witness: the two handles to a[0] = b, b[0] = a have been dropped by
\* decref, nothing was freed and both entries are in use with ref_count 1.
C11_Witness ==
    /\ ~aborted
    /\ last.op = "decref"
    /\ last.arg = 0
    /\ refs_used = 2
    /\ \E a, b \in Live :
          /\ a # b
          /\ IsCycle({a, b})
          /\ Value(a).type = "VAL_REF_ARRAY" /\ Value(b).type = "VAL_REF_ARRAY"
          /\ Value(a).ref_count = 1 /\ Value(b).ref_count = 1
          /\ External(a) = 0 /\ External(b) = 0

\* The heap hp with the child handles of the REF_ARRAY at address a stored in
\* the order p (a permutation of 1..capacity).
Permuted(hp, a, p) ==
    [hp EXCEPT ![a].values =
        [i \in 1..Len(hp[a].values) |->
            IF i <= hp[a].capacity THEN hp[a].values[p[i]] ELSE hp[a].values[i]]]

\* What a collection of the heap hp that enumerates the roots in the given
\* order leaves: whether it completes, and the ref_count of every handle whose
\* entry points into the to space.
Outcome(hp, order) ==
    LET st == stop_and_copy([tab |-> ref_table, num |-> num_refs,
                             heap |-> mm_init(hp, to_pool),
                             mem |-> to_pool, ok |-> TRUE], order)
    IN [ok |-> st.ok,
        counts |-> IF st.ok
                   THEN [h \in {i \in 0..(num_refs - 1) :
                                   is_pool_address(to_pool, st.tab[i])} |->
                            st.heap[st.tab[h]].ref_count]
                   ELSE <<>>]

\* The scenario of C12: r, the only root, is a REF_ARRAY of capacity 2 that
\* holds x and y (in either order); y is a REF_ARRAY whose one child is x;
\* x has no child.
Dag(r, x, y) ==
    /\ Cardinality({r, x, y}) = 3 /\ {r, x, y} \subseteq Live
    /\ globals = SetToBag({r})
    /\ Value(r).type = "VAL_REF_ARRAY" /\ Value(r).capacity = 2
    /\ Children(r) \in {<<x, y>>, <<y, x>>}
    /\ Value(y).type = "VAL_REF_ARRAY" /\ Value(y).capacity = 2
    /\ Children(y) \in {<<x, NULL_REF>>, <<NULL_REF, x>>}
    /\ Value(x).type = "VAL_INT"

\* C12: the handles that survive collect_garbage and the ref_count of each are
\* the same for every order in which foreach_global enumerates the roots and
\* for every order in which the child handles of a REF_ARRAY are stored (and so
\* visited); in the scenario r, x and y all survive with x.ref_count = 2,
\* y.ref_count = 1 and r.ref_count = 1, r's payload unchanged.
C12_OrderIndependent ==
    [][CollectStep =>
          /\ \A o \in Orders :
                \A a \in {b \in DOMAIN heap : heap[b].type = "VAL_REF_ARRAY"} :
                   \A p \in Permutations(1..heap[a].capacity) :
                      Outcome(Permuted(heap, a, p), o) =
                         [ok |-> TRUE,
                          counts |-> [h \in {i \in 0..(num_refs' - 1) : ref_table'[i] # NULL} |->
                                         heap'[ref_table'[h]].ref_count]]
          /\ \A r, x, y \in 0..(num_refs - 1) :
                Dag(r, x, y) =>
                   /\ ref_table'[r] # NULL /\ ref_table'[x] # NULL /\ ref_table'[y] # NULL
                   /\ heap'[ref_table'[x]].ref_count = 2
                   /\ heap'[ref_table'[y]].ref_count = 1
                   /\ heap'[ref_table'[r]].ref_count = 1
                   /\ heap'[ref_table'[r]].values = Value(r).values]_vars

\* C12 witness: the scenario after a collection that reached y before x (x was
\* moved as the child of y and counted again as the child of r).
C12_Witness ==
    /\ AfterCollect
    /\ \E r, x, y \in Live :
          /\ Dag(r, x, y)
          /\ Children(r) = <<y, x>>
          /\ Value(x).ref_count = 2 /\ Value(y).ref_count = 1 /\ Value(r).ref_count = 1

\* C13: after any sequence of completed calls no two entries in use hold the
\* same pointer, and for every handle h whose entry is in use
\* get_ref(deref(h)) = h and deref(get_ref(deref(h))) = deref(h).
C13_OneHandlePerValue ==
    ~aborted =>
        /\ \A i, j \in Live : ref_table[i] = ref_table[j] => i = j
        /\ \A h \in Live :
              LET p == deref(ref_table, num_refs, h)
                  g == get_ref(ref_table, num_refs, p.value)
              IN /\ p.ok /\ g.ok
                 /\ g.ref = h
                 /\ deref(ref_table, num_refs, g.ref) = p

\* C13 witness: two entries in use, the second made by make_ref into slot 1
\* after a collection moved the first.
C13_Witness ==
    /\ ~aborted
    /\ last = [op |-> "make_ref", arg |-> 1]
    /\ pool # memory_pool
    /\ Live = {0, 1}
    /\ get_ref(ref_table, num_refs, deref(ref_table, num_refs, 1).value).ref = 1

\* The handles for which C14 says deref fails an assertion: those outside
\* 0..num_refs-1, and those whose entry is empty or points outside the active
\* half-space.
DerefMustFail(ref) ==
    \/ ref < 0 \/ ref >= num_refs
    \/ ref_table[ref] = NULL
    \/ ~is_pool_address(mem, ref_table[ref])

\* C14 as stated: deref of a handle outside 0..num_refs-1 (NULL_REF and
\* TOMBSTONE_REF included), or of a handle whose entry is empty or does not
\* point into the active half-space, fails an assertion and returns no pointer.
C14_DerefAsserts ==
    ~aborted =>
        \A ref \in Handles \cup {num_refs} :
            DerefMustFail(ref) => ~deref(ref_table, num_refs, ref).ok

\* C15 as stated: after every completed make_ref, incref, decref and
\* collect_garbage, every child handle of every value whose entry is in use is
\* NULL_REF, TOMBSTONE_REF or the index of an entry in use (right after
\* make_ref of a LIST, DICT or REF_ARRAY and right after the sweep too).
C15_ChildHandlesValid ==
    (~aborted /\ last.op \in {"make_ref", "incref", "decref", "collect_garbage"}) =>
        \A h \in Live :
            \A i \in 1..Len(Children(h)) :
                Children(h)[i] \in {NULL_REF, TOMBSTONE_REF} \cup Live

\* C16 as stated: both half-spaces start at a multiple of ALIGNMENT from
\* memory_pool, have the same size, a multiple of ALIGNMENT, do not overlap and
\* lie within the memory_size bytes at memory_pool; every value is aligned.
C16_HalvesAligned ==
    /\ (pool - memory_pool) % ALIGNMENT = 0
    /\ (to_pool - memory_pool) % ALIGNMENT = 0
    /\ PoolSize % ALIGNMENT = 0
    /\ pool + PoolSize <= to_pool \/ to_pool + PoolSize <= pool
    /\ pool >= memory_pool /\ pool + PoolSize <= memory_pool + 2 * half_mem_size
    /\ to_pool >= memory_pool /\ to_pool + PoolSize <= memory_pool + 2 * half_mem_size
    /\ \A a \in DOMAIN heap : a % ALIGNMENT = 0

\* C17: pool and to_pool are memory_pool and memory_pool + memory_size / 2 in
\* some order; pool is memory_pool after init_refs, every completed
\* collect_garbage exchanges pool and to_pool and no other call changes them
\* (so pool is the lower half after an even number of collections and the upper
\* after an odd number); the allocator is active on pool; close_refs releases
\* memory_pool whichever half is active.
C17_HalvesAlternate ==
    [][/\ last.op = "init_refs" => pool = memory_pool
       /\ {pool, to_pool} = {memory_pool, memory_pool + MemorySize \div 2}
       /\ {pool', to_pool'} = {memory_pool, memory_pool + MemorySize \div 2}
       /\ ~aborted' => mem' = pool'
       /\ IF CollectStep
          THEN pool' = to_pool /\ to_pool' = pool
          ELSE UNCHANGED <<pool, to_pool>>
       /\ last'.op = "close_refs" => last'.arg = memory_pool]_vars

\* C17 witness: close_refs was called while the upper half-space was active.
C17_Witness ==
    /\ last.op = "close_refs"
    /\ pool = memory_pool + MemorySize \div 2
    /\ to_pool = memory_pool
    /\ last.arg = memory_pool

\* C18: collect_garbage on a graph whose reachable handles all have an entry in
\* use (cyclic and shared graphs included) runs to completion: mm_malloc in
\* move never returns NULL, every reachable value has exactly one copy in the
\* new half-space, the bytes allocated there are the sum of value_size of the
\* reachable values, and they do not exceed the bytes in use before.
C18_CopiedOnce ==
    [][(last'.op = "collect_garbage" /\ Reachable \subseteq Live) =>
          /\ ~aborted'
          /\ Cardinality(DOMAIN heap') = Cardinality(Reachable)
          /\ \A h \in Reachable : ref_table'[h] \in DOMAIN heap'
          /\ \A h, g \in Reachable : ref_table'[h] = ref_table'[g] => h = g
          /\ mem_used(heap', mem') = SumSizes(heap, {ref_table[h] : h \in Reachable})
          /\ mem_used(heap', mem') <= mem_used(heap, mem)]_vars

\* C18 witness: a cycle of two values that filled the half-space, one of them
\* a root, has been copied into the other half-space, which it fills.
C18_Witness ==
    /\ AfterCollect
    /\ Live = {0, 1}
    /\ IsCycle({0, 1})
    /\ BagToSet(globals) = {0}
    /\ mem_used(heap, mem) = PoolSize
    /\ Cardinality(DOMAIN heap) = 2

\* The references of the "decref" events of depth d among events i..j of log.
CallsAt(log, i, j, d) ==
    LET calls == SelectSeq(SubSeq(log, i, j),
                           LAMBDA e : e.op = "decref" /\ e.depth = d)
    IN [n \in 1..Len(calls) |-> calls[n].ref]

NonSentinel(seq) == SelectSeq(seq, LAMBDA r : r \notin {NULL_REF, TOMBSTONE_REF})

\* The state decref starts from, and the state move starts from when
\* collect_garbage has put the allocator on the to space.
DecrefStart ==
    [tab |-> ref_table, num |-> num_refs, heap |-> heap,
     freed |-> <<>>, log |-> <<>>, depth |-> 0, ok |-> TRUE]

MoveStart ==
    [tab |-> ref_table, num |-> num_refs, heap |-> mm_init(heap, to_pool),
     mem |-> to_pool, ok |-> TRUE]

\* Two runs of decref end alike: both fail, or both leave the same table, the
\* same values and counts, and have freed the same pointers in the same order.
SameDecref(s, t) ==
    /\ s.ok = t.ok
    /\ s.ok => (s.tab = t.tab /\ s.heap = t.heap /\ s.freed = t.freed)

\* C20: decref and move of NULL_REF or TOMBSTONE_REF fail no assertion and
\* change no entry and no count; the traversal of the fields of a value, by
\* decref or by move, ends as it does over the fields that hold references
\* only, and a decref that frees a value with sentinel children leaves what
\* the decref of its other children and the freeing of the value leave.
C20_SentinelsSkipped ==
    (Running /\ NoFresh) =>
        /\ \A r \in {NULL_REF, TOMBSTONE_REF} :
              /\ decref(r).ok /\ decref(r).freed = <<>>
              /\ decref(r).tab = ref_table /\ decref(r).heap = heap
              /\ move(MoveStart, r) = MoveStart
        /\ \A h \in Live :
              /\ SameDecref(decref_all(DecrefStart, apply_to_neighbors(Value(h))),
                            decref_all(DecrefStart, NonSentinel(Children(h))))
              /\ move_all(MoveStart, apply_to_neighbors(Value(h))) =
                    move_all(MoveStart, NonSentinel(Children(h)))
              /\ Value(h).ref_count = 1 =>
                    LET rest == decref_all([DecrefStart EXCEPT
                                              !.heap[ref_table[h]].ref_count = 0],
                                           NonSentinel(Children(h)))
                    IN /\ decref(h).ok = rest.ok
                       /\ rest.ok =>
                             /\ decref(h).tab = [rest.tab EXCEPT ![h] = NULL]
                             /\ decref(h).heap = mm_free(rest.heap, ref_table[h])
                             /\ decref(h).freed = Append(rest.freed, ref_table[h])

\* C20 witness: a collection has moved a DICT whose first child is
\* TOMBSTONE_REF and, going on past it, the value of its second child, which is
\* no root.
C20_Witness ==
    /\ AfterCollect
    /\ \E h, x \in Live :
          /\ Value(h).type = "VAL_DICT"
          /\ Children(h) = <<TOMBSTONE_REF, x>>
          /\ RootCount(x) = 0
          /\ Value(x).ref_count = 1

====
